---- MODULE Spec2Model ----
(***************************************************************************)
(* State-machine model of ansiblereporter/cli.py: the script wrappers      *)
(* GenericAnsibleScript, AnsibleScript (ad-hoc mode) and PlaybookScript    *)
(* (playbook mode).  One process run is modelled from the construction of  *)
(* the script object to process termination, with the SIGINT handler as an *)
(* asynchronous action.                                                    *)
(***************************************************************************)
EXTENDS Integers, Sequences, FiniteSets, TLC

VARIABLES scriptMode,   \* which script class runs: "adhoc" or "playbook"
          args,         \* the argparse namespace (a record; its DOMAIN is the declared flags)
          pc,           \* position of the main thread of control
          runner,       \* self.runner, the reference read by the SIGINT handler
          mode,         \* self.mode, the privilege display prefix
          remote_pass,  \* args.remote_pass
          become_pass,  \* args.become_pass
          vault_pass,   \* args.vault_pass
          outcome,      \* what the adapter's run() produced
          errmsg,       \* message carried by the raised RunnerError
          exc,          \* exception that left the program uncaught
          exitCode,     \* process exit status, NoExit while running
          output,       \* messages printed by the script, in order
          events,       \* external calls made so far
          engineCalls,  \* number of runner.run() calls started
          engineFailure,\* message of the failure the engine raised, or "None"
          sigintAt      \* pc at which SIGINT was delivered, or "never"

vars == <<scriptMode, args, pc, runner, mode, remote_pass, become_pass,
          vault_pass, outcome, errmsg, exc, exitCode, output, events,
          engineCalls, engineFailure, sigintAt>>

(***************************************************************************)
(* Bounds of the model                                                     *)
(***************************************************************************)
NumMessages == 2    \* distinct messages an engine failure may carry
NumUsers == 2       \* distinct values of --become-user

(***************************************************************************)
(* Values                                                                  *)
(***************************************************************************)
None == "None"
False == "False"
Unset == "<unset>"
NoExit == -1

Users == {"user" \o ToString(n) : n \in 1..NumUsers}
EngineMessages == {"engine failure " \o ToString(n) : n \in 1..NumMessages}

ansible_reporter_version == "<tool-version>"
ansible_version == "<engine-version>"

\* Names bound by the import statements of the module.
ImportedNames ==
    {"DEFAULT_MODULE_NAME", "DEFAULT_MODULE_PATH", "DEFAULT_MODULE_ARGS",
     "DEFAULT_TIMEOUT", "DEFAULT_HOST_LIST", "DEFAULT_PRIVATE_KEY_FILE",
     "DEFAULT_FORKS", "DEFAULT_REMOTE_PORT", "DEFAULT_PATTERN",
     "DEFAULT_BECOME_USER", "active_user"}

\* Global names the constructor of each script class evaluates while it
\* declares its arguments.
ReferencedNames(m) ==
    IF m = "adhoc"
    THEN {"DEFAULT_HOST_LIST", "DEFAULT_MODULE_PATH", "DEFAULT_TIMEOUT",
          "active_user", "DEFAULT_become_USER", "DEFAULT_PRIVATE_KEY_FILE",
          "DEFAULT_FORKS", "DEFAULT_REMOTE_PORT", "DEFAULT_MODULE_NAME",
          "DEFAULT_MODULE_ARGS", "DEFAULT_PATTERN"}
    ELSE {"DEFAULT_HOST_LIST", "DEFAULT_MODULE_PATH", "DEFAULT_TIMEOUT",
          "active_user", "DEFAULT_BECOME_USER", "DEFAULT_PRIVATE_KEY_FILE",
          "DEFAULT_FORKS", "DEFAULT_REMOTE_PORT", "DEFAULT_MODULE_ARGS"}

\* Hosts of the inventory and the result of Inventory(...).list_hosts(pattern).
InventoryHosts == {"a", "b"}
Patterns == {"all", "a", "c"}
list_hosts(p) == IF p = "all" THEN InventoryHosts ELSE {h \in InventoryHosts : h = p}

\* The namespaces argparse can produce for each script class.  Only the
\* flags the control flow reads are kept; the record's DOMAIN is the set of
\* declared arguments.
AdhocArgs ==
    [version : BOOLEAN, inventory : {None, "hosts"}, become_user : Users,
     su : BOOLEAN, become : BOOLEAN, ask_pass : BOOLEAN,
     ask_become_pass : BOOLEAN, pattern : Patterns]

PlaybookArgs ==
    [version : BOOLEAN, inventory : {None, "hosts"}, become_user : Users,
     su : BOOLEAN, become : BOOLEAN, ask_pass : BOOLEAN,
     ask_become_pass : BOOLEAN, vault_password_file : {None, "vault.txt"},
     playbook : {None, "site.yml"}]

HasAttr(a, f) == f \in DOMAIN a

Terminated == pc \in {"exited", "crashed"}

(***************************************************************************)
(* Init: the process has started and GenericAnsibleScript.__init__ has set *)
(* runner and mode; the class-specific argument declarations follow.       *)
(***************************************************************************)
Init ==
    /\ scriptMode \in {"adhoc", "playbook"}
    /\ args \in (IF scriptMode = "adhoc" THEN AdhocArgs ELSE PlaybookArgs)
    /\ pc = "construct"
    /\ runner = None
    /\ mode = ""
    /\ remote_pass = Unset
    /\ become_pass = Unset
    /\ vault_pass = Unset
    /\ outcome = None
    /\ errmsg = None
    /\ exc = None
    /\ exitCode = NoExit
    /\ output = <<>>
    /\ events = {}
    /\ engineCalls = 0
    /\ engineFailure = None
    /\ sigintAt = "never"

(***************************************************************************)
(* Helpers shared by the actions                                           *)
(***************************************************************************)
\* Script.exit(value, message): print the message, if any, and leave the
\* process with the given status.
exit(value, message) ==
    /\ pc' = "exited"
    /\ exitCode' = value
    /\ output' = IF message = None THEN output ELSE Append(output, message)
    /\ exc' = exc

\* An exception nothing catches: the interpreter ends the process with a
\* traceback and status 1.
uncaught(e) ==
    /\ pc' = "crashed"
    /\ exc' = e
    /\ exitCode' = 1
    /\ output' = output

\* The step completes and control moves on to the next statement.
goto(next) ==
    /\ pc' = next
    /\ UNCHANGED <<exc, exitCode, output>>

\* show_version: the text handed to self.message.
show_version == ansible_reporter_version \o " (ansible " \o ansible_version \o ")"

\* "if args.inventory is None"
InventoryUndetectedNever(a) == FALSE
InventoryUndetected(a) == a.inventory = None

\* "'pattern' in args and not Inventory(args.inventory).list_hosts(args.pattern)"
NoHostsMatched(a) == HasAttr(a, "pattern") /\ list_hosts(a.pattern) = {}

\* SIGINT handler's test "if self.runner is not None": raise, else exit.
SIGINTRaisesWhenIdle(r) == r = None
SIGINTRaises(r) == r # None

\* "except AnsibleError, emsg": the exception classes the adapters translate.
Caught(e) == e = "AnsibleError"

\* What runner.run() can do: return, raise AnsibleError, or raise an
\* exception of another class; a failure carries a message.
EngineOutcomes ==
    {<<"ok", None>>} \cup ({"AnsibleError", "OtherError"} \X EngineMessages)

\* What getpass.getpass can do: return the typed text (possibly empty) or
\* fail on terminal I/O.
GetpassOutcomes == {<<"ok", "">>, <<"ok", "secret">>, <<"EOFError", None>>}

\* utils.read_vault_file(path): the decoded secret.
read_vault_file(path) == "<secret of " \o path \o ">"

(***************************************************************************)
(* AnsibleScript.__init__ / PlaybookScript.__init__: declare the           *)
(* arguments.  Evaluating a default that names an unbound global raises    *)
(* NameError out of the constructor.                                       *)
(***************************************************************************)
Construct ==
    /\ pc = "construct"
    /\ IF ReferencedNames(scriptMode) \subseteq ImportedNames
       THEN goto("parse_args")
       ELSE uncaught("NameError")
    /\ UNCHANGED <<scriptMode, args, runner, mode, remote_pass, become_pass,
                   vault_pass, outcome, errmsg, events, engineCalls,
                   engineFailure, sigintAt>>

(***************************************************************************)
(* GenericAnsibleScript.parse_args, statement by statement                 *)
(***************************************************************************)
\* lines 81-85
CheckVersion ==
    /\ pc = "parse_args"
    /\ IF args.version
       THEN /\ exit(0, show_version)
            /\ events' = events \cup {"show_version"}
       ELSE /\ goto("inventory")
            /\ events' = events
    /\ UNCHANGED <<scriptMode, args, runner, mode, remote_pass, become_pass,
                   vault_pass, outcome, errmsg, engineCalls, engineFailure,
                   sigintAt>>

\* lines 87-88
CheckInventory ==
    /\ pc = "inventory"
    /\ events' = events \cup {"inventory_check"}
    /\ IF InventoryUndetected(args)
       THEN exit(1, "Could not detect default inventory path")
       ELSE goto("pattern")
    /\ UNCHANGED <<scriptMode, args, runner, mode, remote_pass, become_pass,
                   vault_pass, outcome, errmsg, engineCalls, engineFailure,
                   sigintAt>>

\* lines 90-91
CheckPattern ==
    /\ pc = "pattern"
    /\ events' = IF HasAttr(args, "pattern")
                 THEN events \cup {"list_hosts"} ELSE events
    /\ IF NoHostsMatched(args)
       THEN exit(1, "No hosts matched")
       ELSE goto("ask_pass")
    /\ UNCHANGED <<scriptMode, args, runner, mode, remote_pass, become_pass,
                   vault_pass, outcome, errmsg, engineCalls, engineFailure,
                   sigintAt>>

\* lines 93-96
AskPass ==
    /\ pc = "ask_pass"
    /\ IF args.ask_pass
       THEN /\ events' = events \cup {"getpass_remote"}
            /\ \E r \in GetpassOutcomes :
                 IF r[1] = "ok"
                 THEN remote_pass' = r[2] /\ goto("ask_become_pass")
                 ELSE remote_pass' = remote_pass /\ uncaught(r[1])
       ELSE /\ events' = events
            /\ remote_pass' = None
            /\ goto("ask_become_pass")
    /\ UNCHANGED <<scriptMode, args, runner, mode, become_pass, vault_pass,
                   outcome, errmsg, engineCalls, engineFailure, sigintAt>>

\* lines 98-101
AskBecomePass ==
    /\ pc = "ask_become_pass"
    /\ IF args.ask_become_pass
       THEN /\ events' = events \cup {"getpass_become"}
            /\ \E r \in GetpassOutcomes :
                 IF r[1] = "ok"
                 THEN become_pass' = r[2] /\ goto("privilege")
                 ELSE become_pass' = become_pass /\ uncaught(r[1])
       ELSE /\ events' = events
            /\ become_pass' = None
            /\ goto("privilege")
    /\ UNCHANGED <<scriptMode, args, runner, mode, remote_pass, vault_pass,
                   outcome, errmsg, engineCalls, engineFailure, sigintAt>>

\* lines 103-106
ResolveMode ==
    /\ pc = "privilege"
    /\ IF args.become
       THEN /\ mode' = "become " \o args.become_user \o " "
            /\ goto("vault")
       ELSE IF args.su
            THEN IF HasAttr(args, "su_user")
                 THEN /\ mode' = "su " \o args.su_user \o " "
                      /\ goto("vault")
                 ELSE /\ mode' = mode
                      /\ uncaught("AttributeError")
            ELSE /\ mode' = mode
                 /\ goto("vault")
    /\ UNCHANGED <<scriptMode, args, runner, remote_pass, become_pass,
                   vault_pass, outcome, errmsg, events, engineCalls,
                   engineFailure, sigintAt>>

\* lines 108-113
ResolveVault ==
    /\ pc = "vault"
    /\ IF ~HasAttr(args, "vault_password_file")
       THEN /\ uncaught("AttributeError")
            /\ UNCHANGED <<vault_pass, events>>
       ELSE IF args.vault_password_file # None
            THEN /\ vault_pass' = read_vault_file(args.vault_password_file)
                 /\ events' = events \cup {"read_vault_file"}
                 /\ goto("run")
            ELSE /\ vault_pass' = False
                 /\ events' = events
                 /\ goto("run")
    /\ UNCHANGED <<scriptMode, args, runner, mode, remote_pass, become_pass,
                   outcome, errmsg, engineCalls, engineFailure, sigintAt>>

(***************************************************************************)
(* AnsibleScript.run / PlaybookScript.run up to the engine call: the       *)
(* playbook-presence test (playbook mode only), then the runner object is  *)
(* built and bound to the local name "runner"; self.runner is not          *)
(* assigned.  The step ends with runner.run() entered.                     *)
(***************************************************************************)
Run ==
    /\ pc = "run"
    /\ IF scriptMode = "playbook" /\ args.playbook = None
       THEN /\ exit(1, "No playbook provided")
            /\ UNCHANGED <<events, engineCalls>>
       ELSE /\ goto("engine")
            /\ events' = events \cup {"engine_call"}
            /\ engineCalls' = engineCalls + 1
    /\ runner' = runner
    /\ UNCHANGED <<scriptMode, args, mode, remote_pass, become_pass,
                   vault_pass, outcome, errmsg, engineFailure, sigintAt>>

(***************************************************************************)
(* runner.run() finishes inside the try block of run(): a result is        *)
(* returned as is, AnsibleError is re-raised as RunnerError(emsg), any     *)
(* other exception passes the except clause and leaves run() unchanged.    *)
(***************************************************************************)
EngineReturn ==
    /\ pc = "engine"
    /\ \E r \in EngineOutcomes :
         IF r[1] = "ok"
         THEN /\ outcome' = "ok"
              /\ goto("returned")
              /\ UNCHANGED <<errmsg, engineFailure>>
         ELSE /\ engineFailure' = r[2]
              /\ IF Caught(r[1])
                 THEN /\ outcome' = "RunnerError"
                      /\ errmsg' = r[2]
                      /\ goto("returned")
                 ELSE /\ outcome' = r[1]
                      /\ errmsg' = errmsg
                      /\ uncaught(r[1])
    /\ runner' = runner
    /\ UNCHANGED <<scriptMode, args, mode, remote_pass, become_pass,
                   vault_pass, events, engineCalls, sigintAt>>

(***************************************************************************)
(* The caller of run(): a result ends the process with status 0, a         *)
(* RunnerError is printed and ends it with status 1.                       *)
(***************************************************************************)
Controller ==
    /\ pc = "returned"
    /\ IF outcome = "ok"
       THEN exit(0, None)
       ELSE exit(1, errmsg)
    /\ UNCHANGED <<scriptMode, args, runner, mode, remote_pass, become_pass,
                   vault_pass, outcome, errmsg, events, engineCalls,
                   engineFailure, sigintAt>>

(***************************************************************************)
(* GenericAnsibleScript.SIGINT, delivered at any point of a live process.  *)
(* With a runner registered it raises KeyboardInterrupt into the main      *)
(* flow; only inside run()'s try block is there an except clause to pass,  *)
(* and it takes AnsibleError alone.  Otherwise it calls self.exit(1).      *)
(***************************************************************************)
SIGINT ==
    /\ ~Terminated
    /\ sigintAt' = pc
    /\ IF SIGINTRaises(runner)
       THEN /\ events' = events \cup {"KeyboardInterrupt"}
            /\ IF pc = "engine" /\ Caught("KeyboardInterrupt")
               THEN /\ outcome' = "RunnerError"
                    /\ goto("returned")
               ELSE /\ outcome' = IF pc = "engine" THEN "KeyboardInterrupt" ELSE outcome
                    /\ uncaught("KeyboardInterrupt")
       ELSE /\ exit(1, None)
            /\ UNCHANGED <<events, outcome>>
    /\ UNCHANGED <<scriptMode, args, runner, mode, remote_pass, become_pass,
                   vault_pass, errmsg, engineCalls, engineFailure>>

Next ==
    \/ Construct
    \/ CheckVersion
    \/ CheckInventory
    \/ CheckPattern
    \/ AskPass
    \/ AskBecomePass
    \/ ResolveMode
    \/ ResolveVault
    \/ Run
    \/ EngineReturn
    \/ Controller
    \/ SIGINT

Spec == Init /\ [][Next]_vars

TypeOK ==
    /\ pc \in {"construct", "parse_args", "inventory", "pattern", "ask_pass",
               "ask_become_pass", "privilege", "vault", "run", "engine",
               "returned", "exited", "crashed"}
    /\ exitCode \in {NoExit, 0, 1}
    /\ engineCalls \in 0..1

(***************************************************************************)
(* Properties                                                              *)
(***************************************************************************)
NoInterrupt == sigintAt = "never"
Finished == Terminated /\ NoInterrupt
PromptEvents == {"getpass_remote", "getpass_become"}
ValidationMessages ==
    {"Could not detect default inventory path", "No hosts matched"}
Printed(m) == \E i \in 1..Len(output) : output[i] = m

\* Privilege resolution (lines 103-106) has been executed to its end.
PrivilegeResolved ==
    /\ become_pass # Unset
    /\ pc # "privilege"
    /\ sigintAt # "privilege"

\* The version, inventory and host-pattern checks have all passed.
ChecksPassed ==
    /\ "inventory_check" \in events
    /\ pc \notin {"inventory", "pattern"}
    /\ \A m \in ValidationMessages : ~Printed(m)
    /\ sigintAt \notin {"inventory", "pattern"}

\* parse_args has reached its return statement.
ValidationReturned == vault_pass # Unset

\* C1: in both modes, with --version set, the run prints the version string
\* and ends with exit code 0 (absent an interrupt), and no inventory check,
\* host-pattern check, password prompt, vault read or engine call is ever
\* made in that run.
C1_VersionExitsZero ==
    args.version =>
        /\ events \subseteq {"show_version"}
        /\ Finished => (exitCode = 0 /\ output = <<show_version>>)

\* C2: with --version unset and the inventory path unset, the run ends with
\* exit code 1 and "Could not detect default inventory path" (absent an
\* interrupt), and no host-pattern lookup, password prompt, vault read or
\* engine call is ever made in that run.
C2_InventoryUnsetExitsOne ==
    (~args.version /\ args.inventory = None) =>
        /\ events \subseteq {"inventory_check"}
        /\ Finished =>
             (exitCode = 1 /\ output = <<"Could not detect default inventory path">>)

\* C3: in ad-hoc mode, when the pattern matches no host of the inventory,
\* the run ends with exit code 1 and "No hosts matched", with no password
\* prompt and no engine call; in playbook mode the host-pattern check is
\* never made and never ends the run.
C3_PatternCheckedInAdhocOnly ==
    /\ (scriptMode = "adhoc" /\ ~args.version /\ args.inventory # None
          /\ list_hosts(args.pattern) = {}) =>
            /\ events \cap (PromptEvents \cup {"engine_call"}) = {}
            /\ Finished => (exitCode = 1 /\ output = <<"No hosts matched">>)
    /\ scriptMode = "playbook" =>
            ("list_hosts" \notin events /\ ~Printed("No hosts matched"))

\* C4 (as stated): in playbook mode with no playbook argument and --version
\* unset, the run ends with exit code 1 for the missing playbook before the
\* inventory check is evaluated, whatever the inventory is: the inventory
\* error is never reported and no password is prompted.
C4_PlaybookCheckedBeforeInventory ==
    (scriptMode = "playbook" /\ ~args.version /\ args.playbook = None) =>
        /\ events \cap ({"inventory_check", "list_hosts"} \cup PromptEvents) = {}
        /\ ~Printed("Could not detect default inventory path")
        /\ Finished => (exitCode = 1 /\ output = <<"No playbook provided">>)

\* C4 (amended): the missing playbook is detected in run(), after parse_args
\* has completed.  The "No playbook provided" exit has code 1 and happens
\* only after the inventory check was evaluated and passed, the requested
\* password prompts were made and the vault secret was resolved; a run with
\* a missing playbook and an unset inventory ends with the inventory error,
\* unprompted, and never reports the missing playbook.
C4_PlaybookCheckedAfterValidation ==
    /\ Printed("No playbook provided") =>
         /\ scriptMode = "playbook" /\ args.playbook = None
         /\ exitCode = 1 /\ output = <<"No playbook provided">>
         /\ "inventory_check" \in events /\ args.inventory # None
         /\ args.ask_pass => "getpass_remote" \in events
         /\ args.ask_become_pass => "getpass_become" \in events
         /\ vault_pass # Unset
         /\ "engine_call" \notin events
    /\ (scriptMode = "playbook" /\ ~args.version /\ args.playbook = None
          /\ args.inventory = None) =>
         /\ events \cap PromptEvents = {}
         /\ ~Printed("No playbook provided")
         /\ Finished =>
              (exitCode = 1 /\ output = <<"Could not detect default inventory path">>)

C4_Witness ==
    /\ pc = "exited"
    /\ output = <<"No playbook provided">>
    /\ "getpass_remote" \in events
    /\ "inventory_check" \in events

\* C5: an interrupt delivered while the engine call is in flight is raised
\* into that call as a cancellation, the adapter's outcome is a RunnerError,
\* and the process ends with exit code 1 and that error's message.
C5_InterruptBecomesRunnerError ==
    sigintAt = "engine" =>
        /\ "KeyboardInterrupt" \in events
        /\ outcome = "RunnerError"
        /\ Terminated => (exitCode = 1 /\ exc = None /\ output = <<errmsg>>)

\* C6: self.runner is set exactly while the engine call is in flight.
C6_RunnerRegisteredWhileInFlight ==
    (runner # None) <=> (pc = "engine")

\* C7: every failure raised while the engine call executes, a cancellation
\* included, leaves the adapter as a RunnerError with the engine's message;
\* nothing else escapes, and the engine is called at most once.
C7_OnlyRunnerErrorEscapes ==
    /\ engineCalls <= 1
    /\ outcome \in {None, "ok", "RunnerError"}
    /\ engineFailure # None => (outcome = "RunnerError" /\ errmsg = engineFailure)
    /\ sigintAt = "engine" => outcome = "RunnerError"

\* C8: an interrupt delivered while no engine call is in flight ends the
\* process at once with exit code 1: no cancellation is raised, no exception
\* of any kind is left behind and no message is printed.
C8_IdleInterruptExits ==
    sigintAt \notin {"never", "engine"} =>
        /\ pc = "exited"
        /\ exitCode = 1
        /\ exc = None
        /\ "KeyboardInterrupt" \notin events
        /\ output = <<>>
        /\ outcome = "RunnerError" => sigintAt = "returned"

C8_Witness ==
    /\ sigintAt = "ask_become_pass"
    /\ "getpass_remote" \in events
    /\ pc = "exited"
    /\ exitCode = 1

\* C9: once privilege resolution has run, the prefix is "become <user> "
\* when --become is set (also with --su), "su <user> " when only --su is
\* set, and empty when neither is set.
C9_BecomePriority ==
    PrivilegeResolved =>
        IF args.become THEN mode = "become " \o args.become_user \o " "
        ELSE IF args.su THEN mode \in {"su " \o u \o " " : u \in Users}
        ELSE mode = ""

\* C10: once the version, inventory and host-pattern checks have passed,
\* validation fails only on a prompt I/O error, and the arguments it returns
\* have the passwords absent when their ask-flag is unset and the vault
\* secret false when no vault password file was given.
C10_ValidationNeverFails ==
    ChecksPassed =>
        /\ (pc = "crashed" /\ ~ValidationReturned) => exc = "EOFError"
        /\ ValidationReturned =>
             /\ ~args.ask_pass => remote_pass = None
             /\ ~args.ask_become_pass => become_pass = None
             /\ (~HasAttr(args, "vault_password_file")
                   \/ args.vault_password_file = None) => vault_pass = False

====
